---- MODULE Spec2Model ----
(***************************************************************************)
(* Vehicle Parking App: the booking / spot lifecycle of the web routes in  *)
(* app.py over the tables of core/models.py.                               *)
(*                                                                         *)
(* Strings that the code formats, upper-cases or orders (spot identifiers, *)
(* area codes, licence plates) are sequences of character codes.  Times    *)
(* are seconds since the start of the run; money is in thousandths of a    *)
(* rupee so that round(x, 2) is a real rounding.  NULL is a null column.   *)
(***************************************************************************)
EXTENDS Integers, Sequences, FiniteSets

VARIABLES areas, spots, cars, bookings, now, last, refused, inflight,
          users, session, handed, questions

vars == <<areas, spots, cars, bookings, now, last, refused, inflight,
          users, session, handed, questions>>
db == <<areas, spots, cars, bookings>>

\* the accounts: the user table keyed by email, the email the browser session
\* carries through a password reset, and the secret key each registration
\* response showed; and the secret questions on offer
auth == <<users, session, handed, questions>>

(* ------------------------------ bounds -------------------------------- *)
MaxTicks == 1
MaxBookings == 3
MaxInflight == 2
MaxRaceBookings == 2
MaxApiAreas == 1
MaxApiBookings == 1
MaxAreas == 2

\* the clock runs to MaxTicks steps of an hour and a half, in steps of an
\* hour or of an hour and a half
TickSeconds == {3600, 5400}
Horizon == MaxTicks * 5400

(* --------------------------- reference data --------------------------- *)
NULL == -1

\* the accounts bootstrap_auth seeds (admin, offline_user) and two
\* registered users
Users == {"admin", "offline_user", "alice", "bob"}

\* the accounts that log in; offline_user only owns walk-in cars
Callers == {"admin", "alice", "bob"}

Roles(u) == IF u = "admin" THEN {"admin"} ELSE {"user"}

has_role(u, role_name) == role_name \in Roles(u)

\* the parking-lot forms an admin submits: name, 3-letter code, price per
\* hour (thousandths), number of spots
AreaForms ==
  { [name |-> "Lot1", area_code |-> <<97, 97, 97>>, price_per_hour |-> 12344, max_spots |-> 1] }

\* the car form a user submits: alice registers "KA1"
CarForms == { [user |-> "alice", license_plate |-> <<75, 65, 49>>] }

\* the licence plates typed into the offline-booking form: " ka2", which is
\* no registered car, and "ka1", which is alice's
PlateInputs == { <<32, 107, 97, 50>>, <<107, 97, 49>> }

(* ------------------------------ strings ------------------------------- *)
UpperChar(c) == IF c >= 97 /\ c <= 122 THEN c - 32 ELSE c

\* str.upper()
Upper(s) == [i \in 1..Len(s) |-> UpperChar(s[i])]

RECURSIVE Strip(_)
\* str.strip(), the white space being the space character
Strip(s) ==
  IF Len(s) > 0 /\ s[1] = 32 THEN Strip(Tail(s))
  ELSE IF Len(s) > 0 /\ s[Len(s)] = 32 THEN Strip(SubSeq(s, 1, Len(s) - 1))
  ELSE s

\* str.isalpha() over ASCII
IsAlpha(s) ==
  /\ Len(s) > 0
  /\ \A i \in 1..Len(s) : (s[i] >= 65 /\ s[i] <= 90) \/ (s[i] >= 97 /\ s[i] <= 122)

RECURSIVE Str(_)
\* the decimal rendering of a non-negative integer, as f"{i}" gives it
Str(n) == IF n < 10 THEN <<48 + n>> ELSE Str(n \div 10) \o <<48 + (n % 10)>>

\* f"{area_code}-{i}"
SpotIdentifier(area_code, i) == area_code \o <<45>> \o Str(i)

\* the order of ORDER BY spot_identifier ASC on a text column: byte by
\* byte, a proper prefix first
StrLess(a, b) ==
  \E i \in 1..Len(b) :
     /\ \A j \in 1..(i - 1) : j <= Len(a) /\ a[j] = b[j]
     /\ (i > Len(a) \/ a[i] < b[i])

(* ------------------------------ tables -------------------------------- *)
SetMax(S) == CHOOSE x \in S : \A y \in S : y <= x

\* the id an INTEGER PRIMARY KEY column gives the next inserted row
NextId(table) == IF DOMAIN table = {} THEN 1 ELSE SetMax(DOMAIN table) + 1

Insert(table, id, row) ==
  [i \in DOMAIN table \cup {id} |-> IF i = id THEN row ELSE table[i]]

Delete(table, ids) == [i \in DOMAIN table \ ids |-> table[i]]

\* the ids a request may name: every existing row and one that is missing
IdInputs(table) == DOMAIN table \cup {NextId(table)}

\* mutant of SetSpot: the spot's row is not written
SetSpot_skipped(table, spot, status) == table

\* spot.status = status on the booking's spot, when the booking has one
SetSpot(table, spot, status) ==
  IF spot \in DOMAIN table THEN [table EXCEPT ![spot].status = status] ELSE table

Response(op, id, code) == [op |-> op, id |-> id, code |-> code]

NoRefusal == Response("none", 0, "none")

\* the requests being served at once
Slots == 1..MaxInflight

\* what a request holds in its session between its reads and its commit: the
\* columns it set on the booking it loaded (id 0: none), the booking and the
\* car it added, and the status it set on the spot it loaded (spot 0: none)
Request(op, id, cols, vals, new, car_id, car, spot, spot_status) ==
  [op |-> op, id |-> id, cols |-> cols, vals |-> vals, new |-> new,
   car_id |-> car_id, car |-> car, spot |-> spot, spot_status |-> spot_status]

NoColumns == [status |-> "none", start_time |-> NULL, end_time |-> NULL, total_cost |-> NULL]

NoRequest == Request("none", 0, {}, NoColumns, << >>, 0, << >>, 0, "none")

(* ------------------------------ accounts ------------------------------ *)
\* str.lower() on ASCII
LowerChar(c) == IF c >= 65 /\ c <= 90 THEN c + 32 ELSE c

Lower(s) == [i \in 1..Len(s) |-> LowerChar(s[i])]

Dash == 45

RECURSIVE Split(_, _)
\* str.split(sep): the pieces between the separators, empty pieces included
Split(s, sep) ==
  IF \A i \in 1..Len(s) : s[i] # sep
  THEN << s >>
  ELSE LET i == CHOOSE j \in 1..Len(s) :
                  s[j] = sep /\ \A k \in 1..(j - 1) : s[k] # sep
       IN  << SubSeq(s, 1, i - 1) >> \o Split(SubSeq(s, i + 1, Len(s)), sep)

RECURSIVE Join(_, _)
\* sep.join(parts)
Join(parts, sep) ==
  IF parts = << >> THEN << >>
  ELSE IF Len(parts) = 1 THEN parts[1]
  ELSE parts[1] \o << sep >> \o Join(Tail(parts), sep)

\* parts[1:-1]
Middle(parts) == SubSeq(parts, 2, Len(parts) - 1)

\* '-'.join(fs_uniquifier.split('-')[1:-1])
partial_key(fs_uniquifier) == Join(Middle(Split(fs_uniquifier, Dash)), Dash)

\* the characters of the class [!@#$%^&*(),.?":{}|<>]
SpecialChars == {33, 64, 35, 36, 37, 94, 38, 42, 40, 41, 44, 46, 63, 34, 58,
                 123, 125, 124, 60, 62}

MinPasswordLen == 6

is_password_strong(password) ==
  /\ Len(password) >= MinPasswordLen
  /\ \E i \in 1..Len(password) : password[i] >= 65 /\ password[i] <= 90
  /\ \E i \in 1..Len(password) : password[i] >= 48 /\ password[i] <= 57
  /\ \E i \in 1..Len(password) : password[i] \in SpecialChars

\* generate_password_hash: a salted hash; check_password_hash recomputes it
\* with the stored salt
Hash(text, salt) == [preimage |-> text, salt |-> salt]

check_hash(hash, text) == hash.preimage = text

\* the salt of a hash that replaces old: drawn afresh, so the stored value
\* differs from the one it replaces
FreshSalt(old) == 1 - old.salt

\* User.set_secret_answer stores the hash of the answer, lowered and stripped
NormalAnswer(secret_answer) == Strip(Lower(secret_answer))

\* mutant of check_secret_answer: any answer passes
check_secret_answer_any(user, answer) == TRUE

\* User.check_secret_answer
check_secret_answer(user, answer) ==
  check_hash(user.secret_answer_hash, NormalAnswer(answer))

\* the values uuid.uuid4() gives fs_uniquifier, as five dash-separated groups:
\* "a-b-c-d-e", "f-g-h-i-j", "k-l-m-n-o", "p-q-r-s-t"
SeedUuids == [admin |-> << 97, 45, 98, 45, 99, 45, 100, 45, 101 >>,
              offline_user |-> << 102, 45, 103, 45, 104, 45, 105, 45, 106 >>]

Uuids == { << 107, 45, 108, 45, 109, 45, 110, 45, 111 >>,
           << 112, 45, 113, 45, 114, 45, 115, 45, 116 >> }

\* the question every account of the model chose: the first one seeded
FirstQuestion == "What was your first pet's name?"

User(username, password, secret_answer, fs_uniquifier, role) ==
  [username |-> username,
   secret_question |-> FirstQuestion,
   password_hash |-> Hash(password, 0),
   secret_answer_hash |-> Hash(NormalAnswer(secret_answer), 0),
   fs_uniquifier |-> fs_uniquifier,
   role |-> role]

\* seed_initial_data: the admin ("admin123", answer "admin") and the offline
\* account (password and answer "offline")
SeedUsers ==
  [e \in {"admin@example.com", "offline@example.com"} |->
     IF e = "admin@example.com"
     THEN User("admin", << 97, 100, 109, 105, 110, 49, 50, 51 >>,
               << 97, 100, 109, 105, 110 >>, SeedUuids.admin, "admin")
     ELSE User("offline_user", << 111, 102, 102, 108, 105, 110, 101 >>,
               << 111, 102, 102, 108, 105, 110, 101 >>,
               SeedUuids.offline_user, "user")]

\* no password reset is under way in the browser session
NoEmail == ""

\* seed_initial_data: the secret questions
SeedQuestions ==
  { "What was your first pet's name?", "What is your mother's maiden name?",
    "What was the make of your first car?", "What is your favorite book?",
    "In what city were you born?", "What is the name of your first school?",
    "What is your favorite movie?" }

\* the request is answered with a refusal (a flashed warning, 400, 403, 404
\* or 500) before anything is committed
Refuse(op, id, code) ==
  /\ refused' = Response(op, id, code)
  /\ UNCHANGED <<db, now, last, inflight, auth>>

\* the request reached db.session.commit()
Commit(op, id) ==
  /\ last' = Response(op, id, "ok")
  /\ UNCHANGED <<refused, inflight, auth>>

Init ==
  /\ areas = << >>
  /\ spots = << >>
  /\ cars = << >>
  /\ bookings = << >>
  /\ now = 0
  /\ last = Response("start", 0, "ok")
  /\ refused = NoRefusal
  /\ inflight = [t \in Slots |-> NoRequest]
  /\ users = SeedUsers
  /\ session = NoEmail
  /\ handed = << >>
  /\ questions = SeedQuestions

(* --------------------------- areas and cars --------------------------- *)
\* ParkingLotForm.validate_on_submit
ValidLotForm(f) ==
  /\ Len(f.area_code) = 3
  /\ IsAlpha(f.area_code)
  /\ f.price_per_hour > 0
  /\ f.max_spots >= 1 /\ f.max_spots <= 1000

\* mutant of NewSpots: the spots are numbered from 0
NewSpots_from_zero(table, area_id, area_code, num_spots) ==
  LET base == NextId(table) IN
  [id \in DOMAIN table \cup (base..(base + num_spots - 1)) |->
     IF id \in DOMAIN table THEN table[id]
     ELSE [spot_identifier |-> SpotIdentifier(area_code, id - base),
           status |-> "available",
           parking_area_id |-> area_id]]

\* the rows admin_area_new adds for the spots 1..num_spots of a new area
NewSpots(table, area_id, area_code, num_spots) ==
  LET base == NextId(table) IN
  [id \in DOMAIN table \cup (base..(base + num_spots - 1)) |->
     IF id \in DOMAIN table THEN table[id]
     ELSE [spot_identifier |-> SpotIdentifier(area_code, id - base + 1),
           status |-> "available",
           parking_area_id |-> area_id]]

admin_area_new(u, f) ==
  IF ~has_role(u, "admin")
  THEN Refuse("admin_area_new", 0, "forbidden")
  ELSE IF ~ValidLotForm(f)
  THEN Refuse("admin_area_new", 0, "rejected")
  ELSE IF \E a \in DOMAIN areas : areas[a].name = f.name
  THEN \* the unique constraint on name fails the flush; nothing is committed
       Refuse("admin_area_new", 0, "error")
  ELSE LET id == NextId(areas) IN
       /\ areas' = Insert(areas, id, [name |-> f.name, price_per_hour |-> f.price_per_hour])
       /\ spots' = NewSpots(spots, id, Upper(f.area_code), f.max_spots)
       /\ Commit("admin_area_new", id)
       /\ UNCHANGED <<cars, bookings, now>>

\* db.session.delete(area): the cascade of ParkingArea.spots and of
\* ParkingSpot.bookings
CascadeDeleteArea(area_id) ==
  LET gone == {s \in DOMAIN spots : spots[s].parking_area_id = area_id} IN
  /\ areas' = Delete(areas, {area_id})
  /\ spots' = Delete(spots, gone)
  /\ bookings' = Delete(bookings, {b \in DOMAIN bookings : bookings[b].spot_id \in gone})
  /\ UNCHANGED cars

\* area.spots.filter_by(status='occupied').count() > 0
HasOccupiedSpot(area_id) ==
  \E s \in DOMAIN spots :
     spots[s].parking_area_id = area_id /\ spots[s].status = "occupied"

admin_area_delete(u, area_id) ==
  IF ~has_role(u, "admin")
  THEN Refuse("admin_area_delete", 0, "forbidden")
  ELSE IF area_id \notin DOMAIN areas
  THEN Refuse("admin_area_delete", 0, "not_found")
  ELSE IF HasOccupiedSpot(area_id)
  THEN Refuse("admin_area_delete", area_id, "rejected")
  ELSE /\ CascadeDeleteArea(area_id)
       /\ Commit("admin_area_delete", area_id)
       /\ UNCHANGED now

\* POST /user/cars
user_cars(u, plate) ==
  /\ IF \E c \in DOMAIN cars : cars[c].license_plate = plate
     THEN Refuse("user_cars", 0, "rejected")
     ELSE LET id == NextId(cars) IN
          /\ cars' = Insert(cars, id, [license_plate |-> plate, user_id |-> u])
          /\ Commit("user_cars", id)
          /\ UNCHANGED <<areas, spots, bookings, now>>

\* db.session.delete(car): the cascade of Car.bookings
CascadeDeleteCar(car_id) ==
  /\ cars' = Delete(cars, {car_id})
  /\ bookings' = Delete(bookings, {b \in DOMAIN bookings : bookings[b].car_id = car_id})
  /\ UNCHANGED <<areas, spots>>

\* mutant of IsParked: the wrong status tested
IsParked_pending(car_id) ==
  \E b \in DOMAIN bookings :
     bookings[b].car_id = car_id /\ bookings[b].status = "pending"

\* car.bookings.filter_by(status='active').count() > 0
IsParked(car_id) ==
  \E b \in DOMAIN bookings :
     bookings[b].car_id = car_id /\ bookings[b].status = "active"

user_car_delete(u, car_id) ==
  IF car_id \notin DOMAIN cars
  THEN Refuse("user_car_delete", 0, "not_found")
  ELSE IF cars[car_id].user_id # u
  THEN Refuse("user_car_delete", car_id, "forbidden")
  ELSE IF IsParked(car_id)
  THEN Refuse("user_car_delete", car_id, "rejected")
  ELSE /\ CascadeDeleteCar(car_id)
       /\ Commit("user_car_delete", car_id)
       /\ UNCHANGED now

(* ------------------------------ billing ------------------------------- *)
\* math.ceil(a / b) for b > 0
Ceil(a, b) == -((-a) \div b)

\* mutant of billed_hours: the hours truncated instead of rounded up
billed_hours_truncated(start, end) ==
  LET hours == (end - start) \div 3600 IN IF hours > 1 THEN hours ELSE 1

\* max(1, ceil(hours)) with hours = (end - start).total_seconds() / 3600
billed_hours(start, end) ==
  LET hours == Ceil(end - start, 3600) IN IF hours > 1 THEN hours ELSE 1

\* round(x, 2) on an amount in thousandths: to the nearest hundredth, an
\* exact tie to the even one
Round2(x) ==
  LET q == x \div 10
      r == x % 10
  IN IF r < 5 THEN 10 * q
     ELSE IF r > 5 THEN 10 * (q + 1)
     ELSE IF q % 2 = 0 THEN 10 * q ELSE 10 * (q + 1)

\* mutant of total_cost: no cost is stored
total_cost_unset(start, end, price) == NULL

\* round(billed_hours * price, 2)
total_cost(start, end, price) == Round2(billed_hours(start, end) * price)

(* --------------------------- spot selection --------------------------- *)
Available(area_id) ==
  {s \in DOMAIN spots :
     spots[s].parking_area_id = area_id /\ spots[s].status = "available"}

\* ParkingSpot.query.filter_by(parking_area_id, status='available')
\*   .order_by(ParkingSpot.spot_identifier.asc()).first(); NULL when none
FirstAvailable(area_id) ==
  IF Available(area_id) = {} THEN NULL
  ELSE CHOOSE s \in Available(area_id) :
         \A t \in Available(area_id) :
            t = s \/ StrLess(spots[s].spot_identifier, spots[t].spot_identifier)

\* mutant of HasOpenBooking: the pending bookings forgotten
HasOpenBooking_active_only(table, car_id) ==
  \E b \in DOMAIN table : table[b].car_id = car_id /\ table[b].status = "active"

\* Booking.query.filter(car_id == ..., status in ('active', 'pending')).first()
HasOpenBooking(table, car_id) ==
  \E b \in DOMAIN table :
     table[b].car_id = car_id /\ table[b].status \in {"active", "pending"}

\* mutant of Booking: every booking starts active
Booking_active(user_id, car_id, spot_id, status) ==
  [user_id |-> user_id, car_id |-> car_id, spot_id |-> spot_id, status |-> "active",
   start_time |-> now, end_time |-> NULL, total_cost |-> NULL]

Booking(user_id, car_id, spot_id, status) ==
  [user_id |-> user_id, car_id |-> car_id, spot_id |-> spot_id, status |-> status,
   start_time |-> now, end_time |-> NULL, total_cost |-> NULL]

(* ------------------------------ bookings ------------------------------ *)
user_book(u, area_id, car_id) ==
  /\ NextId(bookings) <= MaxBookings
  /\ IF has_role(u, "admin")
     THEN Refuse("user_book", 0, "forbidden")
     ELSE IF area_id = 0 \/ car_id = 0
     THEN Refuse("user_book", 0, "rejected")
     ELSE IF car_id \notin DOMAIN cars
     THEN Refuse("user_book", 0, "not_found")
     ELSE IF cars[car_id].user_id # u
     THEN Refuse("user_book", 0, "forbidden")
     ELSE IF HasOpenBooking(bookings, car_id)
     THEN Refuse("user_book", 0, "rejected")
     ELSE IF FirstAvailable(area_id) = NULL
     THEN Refuse("user_book", 0, "rejected")
     ELSE LET spot == FirstAvailable(area_id)
              id == NextId(bookings)
          IN /\ spots' = SetSpot(spots, spot, "reserved")
             /\ bookings' = Insert(bookings, id, Booking(u, car_id, spot, "pending"))
             /\ Commit("user_book", id)
             /\ UNCHANGED <<areas, cars, now>>

\* mutant of Uncommitted: the flushed rows stay
Uncommitted_flushed(committed, flushed) == flushed

\* what a request that returns without db.session.commit() leaves behind:
\* the session is discarded, so the flushed rows are rolled back
Uncommitted(committed, flushed) == committed

\* mutant of OfflineCar: the car goes to the admin who typed the plate
OfflineCar_of_admin(plate) == [license_plate |-> plate, user_id |-> "admin"]

\* Car(license_plate=plate, user_id=offline_user.id)
OfflineCar(plate) == [license_plate |-> plate, user_id |-> "offline_user"]

admin_offline_book(u, plate_input, area_id) ==
  LET plate == Upper(Strip(plate_input))
      found == {c \in DOMAIN cars : cars[c].license_plate = plate}
      \* the session's view of the car table after the find-or-create flush
      car == IF found = {} THEN NextId(cars) ELSE CHOOSE c \in found : TRUE
      session_cars ==
        IF found = {} THEN Insert(cars, car, OfflineCar(plate))
        ELSE cars
  IN
  /\ NextId(bookings) <= MaxBookings
  /\ IF ~has_role(u, "admin")
     THEN Refuse("admin_offline_book", 0, "forbidden")
     ELSE IF plate = << >> \/ area_id = 0
     THEN Refuse("admin_offline_book", 0, "rejected")
     ELSE IF area_id \notin DOMAIN areas
     THEN Refuse("admin_offline_book", 0, "not_found")
     ELSE IF HasOpenBooking(bookings, car) \/ FirstAvailable(area_id) = NULL
     THEN /\ cars' = Uncommitted(cars, session_cars)
          /\ refused' = Response("admin_offline_book", 0, "rejected")
          /\ UNCHANGED <<areas, spots, bookings, now, last, inflight, auth>>
     ELSE LET spot == FirstAvailable(area_id)
              id == NextId(bookings)
          IN /\ cars' = session_cars
             /\ spots' = SetSpot(spots, spot, "occupied")
             /\ bookings' = Insert(bookings, id,
                                   Booking(session_cars[car].user_id, car, spot, "active"))
             /\ Commit("admin_offline_book", id)
             /\ UNCHANGED <<areas, now>>

\* mutant of NotPending: only finished bookings are turned away
NotPending_closed_only(b) == bookings[b].status \in {"completed", "rejected"}

\* the guard of admin_request_approve and admin_request_reject
NotPending(b) == bookings[b].status # "pending"

admin_request_approve(u, b) ==
  IF ~has_role(u, "admin")
  THEN Refuse("admin_request_approve", 0, "forbidden")
  ELSE IF b \notin DOMAIN bookings
  THEN Refuse("admin_request_approve", 0, "not_found")
  ELSE IF NotPending(b)
  THEN Refuse("admin_request_approve", b, "rejected")
  ELSE /\ bookings' = [bookings EXCEPT ![b].status = "active", ![b].start_time = now]
       /\ spots' = SetSpot(spots, bookings[b].spot_id, "occupied")
       /\ Commit("admin_request_approve", b)
       /\ UNCHANGED <<areas, cars, now>>

\* the effect shared by admin_request_reject and user_cancel_pending
RejectBooking(b) ==
  /\ spots' = SetSpot(spots, bookings[b].spot_id, "available")
  /\ bookings' = [bookings EXCEPT ![b].status = "rejected"]
  /\ UNCHANGED <<areas, cars, now>>

admin_request_reject(u, b) ==
  IF ~has_role(u, "admin")
  THEN Refuse("admin_request_reject", 0, "forbidden")
  ELSE IF b \notin DOMAIN bookings
  THEN Refuse("admin_request_reject", 0, "not_found")
  ELSE IF NotPending(b)
  THEN Refuse("admin_request_reject", b, "rejected")
  ELSE /\ RejectBooking(b)
       /\ Commit("admin_request_reject", b)

\* mutant of CancelForbidden: the owner is not checked
CancelForbidden_any_user(u, b) == bookings[b].status # "pending"

\* the guard of user_cancel_pending
CancelForbidden(u, b) == bookings[b].user_id # u \/ bookings[b].status # "pending"

user_cancel_pending(u, b) ==
  IF b \notin DOMAIN bookings
  THEN Refuse("user_cancel_pending", 0, "not_found")
  ELSE IF CancelForbidden(u, b)
  THEN Refuse("user_cancel_pending", b, "forbidden")
  ELSE /\ RejectBooking(b)
       /\ Commit("user_cancel_pending", b)

\* the price of the area of a spot
Price(spot) == areas[spots[spot].parking_area_id].price_per_hour

\* mutant of AlreadyReleased: the test left out
AlreadyReleased_never(b) == FALSE

\* the status test user_release makes before completing the booking
AlreadyReleased(b) == bookings[b].status = "completed"

user_release(u, b) ==
  IF b \notin DOMAIN bookings
  THEN Refuse("user_release", 0, "not_found")
  ELSE IF bookings[b].user_id # u
  THEN Refuse("user_release", b, "forbidden")
  ELSE IF AlreadyReleased(b)
  THEN Refuse("user_release", b, "rejected")
  ELSE LET spot == bookings[b].spot_id
           start == bookings[b].start_time
           billed == spot \in DOMAIN spots /\ start # NULL
       IN /\ bookings' = [bookings EXCEPT
                            ![b].status = "completed",
                            ![b].end_time = now,
                            ![b].total_cost = IF billed THEN total_cost(start, now, Price(spot))
                                              ELSE @]
          /\ spots' = IF billed THEN SetSpot(spots, spot, "available") ELSE spots
          /\ Commit("user_release", b)
          /\ UNCHANGED <<areas, cars, now>>

\* _complete_booking(booking), called with a booking that is not completed
complete_booking(b) ==
  LET spot == bookings[b].spot_id
      start == bookings[b].start_time
  IN /\ bookings' = [bookings EXCEPT
                       ![b].status = "completed",
                       ![b].end_time = now,
                       ![b].total_cost = IF spot \in DOMAIN spots /\ start # NULL
                                         THEN total_cost(start, now, Price(spot))
                                         ELSE @]
     /\ spots' = SetSpot(spots, spot, "available")
     /\ UNCHANGED <<areas, cars, now>>

\* the guard of admin_offline_release
NotActive(b) == bookings[b].status # "active"

admin_offline_release(u, b) ==
  IF ~has_role(u, "admin")
  THEN Refuse("admin_offline_release", 0, "forbidden")
  ELSE IF b \notin DOMAIN bookings
  THEN Refuse("admin_offline_release", 0, "not_found")
  ELSE IF NotActive(b)
  THEN Refuse("admin_offline_release", b, "rejected")
  ELSE /\ complete_booking(b)
       /\ Commit("admin_offline_release", b)

\* the refusal is delivered to the client; the next request follows it
Respond ==
  /\ refused # NoRefusal
  /\ refused' = NoRefusal
  /\ UNCHANGED <<db, now, last, inflight, auth>>

\* the clock advances between requests, by an hour or by an hour and a half
Tick ==
  /\ \E d \in TickSeconds : now + d <= Horizon /\ now' = now + d
  /\ UNCHANGED <<db, last, refused, inflight, auth>>

Idle == refused = NoRefusal

Next ==
  \/ Respond
  \/ Idle /\ Tick
  \/ Idle /\ \E u \in Callers, f \in AreaForms : admin_area_new(u, f)
  \/ Idle /\ \E u \in Callers, a \in IdInputs(areas) : admin_area_delete(u, a)
  \/ Idle /\ \E f \in CarForms : user_cars(f.user, f.license_plate)
  \/ Idle /\ \E u \in Callers, c \in IdInputs(cars) : user_car_delete(u, c)
  \/ Idle /\ \E u \in Callers, a \in IdInputs(areas) \cup {0}, c \in IdInputs(cars) \cup {0} :
        user_book(u, a, c)
  \/ Idle /\ \E u \in Callers, p \in PlateInputs, a \in IdInputs(areas) \cup {0} :
        admin_offline_book(u, p, a)
  \/ Idle /\ \E u \in Callers, b \in IdInputs(bookings) : admin_request_approve(u, b)
  \/ Idle /\ \E u \in Callers, b \in IdInputs(bookings) : admin_request_reject(u, b)
  \/ Idle /\ \E u \in Callers, b \in IdInputs(bookings) : user_cancel_pending(u, b)
  \/ Idle /\ \E u \in Callers, b \in IdInputs(bookings) : user_release(u, b)
  \/ Idle /\ \E u \in Callers, b \in IdInputs(bookings) : admin_offline_release(u, b)

Spec == Init /\ [][Next]_vars

(* ----------------- a ten-spot area, as admin_area_new leaves it ------- *)
\* the form of the larger lot: name "Lot2", code "bbb", ten spots
BigLotForm ==
  [name |-> "Lot2", area_code |-> <<98, 98, 98>>, price_per_hour |-> 20000, max_spots |-> 10]

\* the state after the admin created Lot2 from BigLotForm in the empty
\* database
InitFill ==
  /\ areas = Insert(<< >>, 1, [name |-> BigLotForm.name,
                               price_per_hour |-> BigLotForm.price_per_hour])
  /\ spots = NewSpots(<< >>, 1, Upper(BigLotForm.area_code), BigLotForm.max_spots)
  /\ cars = << >>
  /\ bookings = << >>
  /\ now = 0
  /\ last = Response("admin_area_new", 1, "ok")
  /\ refused = NoRefusal
  /\ inflight = [t \in Slots |-> NoRequest]
  /\ users = SeedUsers
  /\ session = NoEmail
  /\ handed = << >>
  /\ questions = SeedQuestions

\* the requests that book, decide and release, in the ten-spot area
NextFill ==
  \/ Respond
  \/ Idle /\ \E f \in CarForms : user_cars(f.user, f.license_plate)
  \/ Idle /\ \E u \in Callers, a \in IdInputs(areas), c \in IdInputs(cars) : user_book(u, a, c)
  \/ Idle /\ \E u \in Callers, p \in PlateInputs, a \in IdInputs(areas) :
        admin_offline_book(u, p, a)
  \/ Idle /\ \E u \in Callers, b \in IdInputs(bookings) : admin_request_approve(u, b)
  \/ Idle /\ \E u \in Callers, b \in IdInputs(bookings) : admin_request_reject(u, b)
  \/ Idle /\ \E u \in Callers, b \in IdInputs(bookings) : user_cancel_pending(u, b)
  \/ Idle /\ \E u \in Callers, b \in IdInputs(bookings) : user_release(u, b)
  \/ Idle /\ \E u \in Callers, b \in IdInputs(bookings) : admin_offline_release(u, b)

SpecFill == InitFill /\ [][NextFill]_vars

(* ------------ requests served at once: the reads, then the commit ----- *)
SetMin(S) == CHOOSE x \in S : \A y \in S : x <= y

\* the request has done its reads and built its session; its commit is to come
Start(req) ==
  LET free == {t \in Slots : inflight[t] = NoRequest} IN
  /\ free # {}
  /\ inflight' = [inflight EXCEPT ![SetMin(free)] = req]
  /\ UNCHANGED <<db, now, last, refused, auth>>

\* the bookings that the requests in flight are about to insert
InflightInserts == Cardinality({t \in Slots : inflight[t].new # << >>})

\* the spot whose row the session will UPDATE when the handler assigns
\* status to the loaded spot: none (0) when the loaded value is that status
\* already, or the booking has no spot
SpotWrite(spot, status) ==
  IF spot \in DOMAIN spots /\ spots[spot].status # status THEN spot ELSE 0

\* another request has flushed a row and holds the database's write lock
\* until it commits
WriteLocked(t) == \E o \in Slots \ {t} : inflight[o].car # << >>

\* user_book up to its last read
user_book_begin(u, area_id, car_id) ==
  /\ NextId(bookings) + InflightInserts <= MaxRaceBookings
  /\ IF /\ ~has_role(u, "admin")
        /\ area_id # 0
        /\ car_id \in DOMAIN cars
        /\ cars[car_id].user_id = u
        /\ ~HasOpenBooking(bookings, car_id)
        /\ FirstAvailable(area_id) # NULL
     THEN LET spot == FirstAvailable(area_id) IN
          Start(Request("user_book", 0, {}, NoColumns,
                        <<Booking(u, car_id, spot, "pending")>>,
                        0, << >>, SpotWrite(spot, "reserved"), "reserved"))
     ELSE user_book(u, area_id, car_id)

\* admin_offline_book up to its last read; a car it creates is flushed, which
\* takes the write lock
admin_offline_book_begin(u, plate_input, area_id) ==
  LET plate == Upper(Strip(plate_input))
      found == {c \in DOMAIN cars : cars[c].license_plate = plate}
      car == IF found = {} THEN NextId(cars) ELSE CHOOSE c \in found : TRUE
      owner == IF found = {} THEN OfflineCar(plate).user_id ELSE cars[car].user_id
  IN
  /\ NextId(bookings) + InflightInserts <= MaxRaceBookings
  /\ IF /\ has_role(u, "admin")
        /\ plate # << >> /\ area_id # 0
        /\ area_id \in DOMAIN areas
        /\ ~HasOpenBooking(bookings, car)
        /\ FirstAvailable(area_id) # NULL
     THEN LET spot == FirstAvailable(area_id) IN
          /\ found = {} => ~WriteLocked(0)
          /\ Start(Request("admin_offline_book", 0, {}, NoColumns,
                           <<Booking(owner, car, spot, "active")>>,
                           IF found = {} THEN car ELSE 0,
                           IF found = {} THEN <<OfflineCar(plate)>> ELSE << >>,
                           SpotWrite(spot, "occupied"), "occupied"))
     ELSE admin_offline_book(u, plate_input, area_id)

\* admin_request_approve up to its last read
admin_request_approve_begin(u, b) ==
  IF has_role(u, "admin") /\ b \in DOMAIN bookings /\ ~NotPending(b)
  THEN Start(Request("admin_request_approve", b, {"status", "start_time"},
                     [NoColumns EXCEPT !.status = "active", !.start_time = now],
                     << >>, 0, << >>,
                     SpotWrite(bookings[b].spot_id, "occupied"), "occupied"))
  ELSE admin_request_approve(u, b)

\* admin_request_reject up to its last read
admin_request_reject_begin(u, b) ==
  IF has_role(u, "admin") /\ b \in DOMAIN bookings /\ ~NotPending(b)
  THEN Start(Request("admin_request_reject", b, {"status"},
                     [NoColumns EXCEPT !.status = "rejected"],
                     << >>, 0, << >>,
                     SpotWrite(bookings[b].spot_id, "available"), "available"))
  ELSE admin_request_reject(u, b)

\* user_cancel_pending up to its last read
user_cancel_pending_begin(u, b) ==
  IF b \in DOMAIN bookings /\ ~CancelForbidden(u, b)
  THEN Start(Request("user_cancel_pending", b, {"status"},
                     [NoColumns EXCEPT !.status = "rejected"],
                     << >>, 0, << >>,
                     SpotWrite(bookings[b].spot_id, "available"), "available"))
  ELSE user_cancel_pending(u, b)

\* the columns a release sets on booking b
ReleaseColumns(b) ==
  [NoColumns EXCEPT !.status = "completed",
                    !.end_time = now,
                    !.total_cost = total_cost(bookings[b].start_time, now,
                                              Price(bookings[b].spot_id))]

\* user_release up to its last read
user_release_begin(u, b) ==
  IF b \in DOMAIN bookings /\ bookings[b].user_id = u /\ ~AlreadyReleased(b)
  THEN Start(Request("user_release", b, {"status", "end_time", "total_cost"},
                     ReleaseColumns(b), << >>, 0, << >>,
                     SpotWrite(bookings[b].spot_id, "available"), "available"))
  ELSE user_release(u, b)

\* admin_offline_release up to its last read
admin_offline_release_begin(u, b) ==
  IF has_role(u, "admin") /\ b \in DOMAIN bookings /\ ~NotActive(b)
  THEN Start(Request("admin_offline_release", b, {"status", "end_time", "total_cost"},
                     ReleaseColumns(b), << >>, 0, << >>,
                     SpotWrite(bookings[b].spot_id, "available"), "available"))
  ELSE admin_offline_release(u, b)

\* UPDATE booking SET the changed columns WHERE id = ...
UpdateRow(table, id, cols, vals) ==
  IF id \in DOMAIN table
  THEN [table EXCEPT ![id] = [c \in DOMAIN @ |-> IF c \in cols THEN vals[c] ELSE @[c]]]
  ELSE table

\* mutant of InsertRows: the booking is dropped when its spot was taken
\* since it was read
InsertRows_if_free(table, rows) ==
  IF rows = << >> \/ spots[rows[1].spot_id].status # "available" THEN table
  ELSE Insert(table, NextId(table), rows[1])

\* INSERT INTO booking of the row the session added
InsertRows(table, rows) ==
  IF rows = << >> THEN table ELSE Insert(table, NextId(table), rows[1])

\* db.session.commit() of the request in slot t: its flushed car, its UPDATEs
\* and its INSERT in one transaction
CommitRequest(t) ==
  LET r == inflight[t] IN
  /\ r # NoRequest
  /\ ~WriteLocked(t)
  /\ cars' = IF r.car # << >> THEN Insert(cars, r.car_id, r.car[1]) ELSE cars
  /\ bookings' = InsertRows(UpdateRow(bookings, r.id, r.cols, r.vals), r.new)
  /\ spots' = IF r.spot # 0 THEN SetSpot(spots, r.spot, r.spot_status) ELSE spots
  /\ inflight' = [inflight EXCEPT ![t] = NoRequest]
  /\ last' = Response(r.op, IF r.new # << >> THEN NextId(bookings) ELSE r.id, "ok")
  /\ UNCHANGED <<areas, now, refused, auth>>

\* the form of the lot the concurrent requests meet in: "Lot3", code "ccc",
\* two spots
RaceLotForm ==
  [name |-> "Lot3", area_code |-> <<99, 99, 99>>, price_per_hour |-> 20000, max_spots |-> 2]

\* the car a user registered from a car form
RaceCar ==
  LET f == CHOOSE f \in CarForms : TRUE IN
  [license_plate |-> f.license_plate, user_id |-> f.user]

\* the state after the admin created Lot3 and alice registered her car
InitRace ==
  /\ areas = Insert(<< >>, 1, [name |-> RaceLotForm.name,
                               price_per_hour |-> RaceLotForm.price_per_hour])
  /\ spots = NewSpots(<< >>, 1, Upper(RaceLotForm.area_code), RaceLotForm.max_spots)
  /\ cars = Insert(<< >>, 1, RaceCar)
  /\ bookings = << >>
  /\ now = 0
  /\ last = Response("user_cars", 1, "ok")
  /\ refused = NoRefusal
  /\ inflight = [t \in Slots |-> NoRequest]
  /\ users = SeedUsers
  /\ session = NoEmail
  /\ handed = << >>
  /\ questions = SeedQuestions

\* the accounts whose requests meet: the admin and the owner of the car
RaceCallers == {"admin", "alice"}

NextRace ==
  \/ Respond
  \/ Idle /\ \E t \in Slots : CommitRequest(t)
  \/ Idle /\ \E u \in RaceCallers, a \in DOMAIN areas, c \in DOMAIN cars :
        user_book_begin(u, a, c)
  \/ Idle /\ \E u \in RaceCallers, p \in PlateInputs, a \in DOMAIN areas :
        admin_offline_book_begin(u, p, a)
  \/ Idle /\ \E u \in RaceCallers, b \in DOMAIN bookings : admin_request_approve_begin(u, b)
  \/ Idle /\ \E u \in RaceCallers, b \in DOMAIN bookings : admin_request_reject_begin(u, b)
  \/ Idle /\ \E u \in RaceCallers, b \in DOMAIN bookings : user_cancel_pending_begin(u, b)
  \/ Idle /\ \E u \in RaceCallers, b \in DOMAIN bookings : user_release_begin(u, b)
  \/ Idle /\ \E u \in RaceCallers, b \in DOMAIN bookings : admin_offline_release_begin(u, b)

SpecRace == InitRace /\ [][NextRace]_vars

(* ---------------- registration and password reset -------------------- *)
\* the registrations submitted: carol with a strong password and the answer
\* " Rex"; dave with "abcdef" and the answer "cat"; a second "carol" under
\* another email with an empty answer
RegisterInputs ==
  { [username |-> "carol", email |-> "carol@example.com",
     password |-> << 65, 98, 49, 33, 99, 100 >>,
     secret_answer |-> << 32, 82, 101, 120 >>],
    [username |-> "dave", email |-> "dave@example.com",
     password |-> << 97, 98, 99, 100, 101, 102 >>,
     secret_answer |-> << 99, 97, 116 >>],
    [username |-> "carol", email |-> "erin@example.com",
     password |-> << 65, 98, 49, 33, 99, 100 >>,
     secret_answer |-> << >>] }

\* the emails a reset names: every account and one that has none
EmailInputs == DOMAIN users \cup {"nobody@example.com"}

\* the answers typed at a reset: "REX ", "cat", "dog" and a blank
AnswerInputs == { << 82, 69, 88, 32 >>, << 99, 97, 116 >>, << 100, 111, 103 >>, << 32 >> }

\* the keys typed at a reset: every identifier in full and its middle groups
KeyInputs == Uuids \cup { partial_key(u) : u \in Uuids }

\* the new passwords typed at a reset: "Xy9?zz" and "ghijkl"
NewPasswords == { << 88, 121, 57, 63, 122, 122 >>, << 103, 104, 105, 106, 107, 108 >> }

\* User.query.filter((User.username == username) | (User.email == email)).first()
ExistingUser(username, email) ==
  \E e \in DOMAIN users : e = email \/ users[e].username = username

\* wtforms DataRequired on a text field
DataRequired(text) == Strip(text) # << >>

\* the request committed a change of the accounts
CommitAuth(op) ==
  /\ last' = Response(op, 0, "ok")
  /\ UNCHANGED <<db, now, refused, inflight, questions>>

\* RegisterAPI.post: the response carries new_user.fs_uniquifier as secret_key
RegisterAPI_post(f, uuid) ==
  /\ \A e \in DOMAIN users : users[e].fs_uniquifier # uuid
  /\ IF ExistingUser(f.username, f.email)
       THEN Refuse("RegisterAPI_post", 0, "rejected")
     ELSE IF ~is_password_strong(f.password)
       THEN Refuse("RegisterAPI_post", 0, "rejected")
     ELSE IF f.secret_answer = << >>
       \* set_secret_answer stores nothing and the NOT NULL column fails
       THEN Refuse("RegisterAPI_post", 0, "error")
     ELSE /\ users' = Insert(users, f.email,
                              User(f.username, f.password, f.secret_answer, uuid, "user"))
          /\ handed' = Insert(handed, f.email, uuid)
          /\ UNCHANGED session
          /\ CommitAuth("RegisterAPI_post")

\* RegisterForm.validate_on_submit
ValidRegisterForm(f) ==
  /\ Len(f.password) >= MinPasswordLen
  /\ DataRequired(f.secret_answer)
  /\ Len(f.secret_answer) >= 2

\* register_page: the login page it redirects to shows the partial key
register_page(f, uuid) ==
  /\ \A e \in DOMAIN users : users[e].fs_uniquifier # uuid
  /\ IF ~ValidRegisterForm(f)
       THEN Refuse("register_page", 0, "rejected")
     ELSE IF ExistingUser(f.username, f.email)
       THEN Refuse("register_page", 0, "rejected")
     ELSE /\ users' = Insert(users, f.email,
                              User(f.username, f.password, f.secret_answer, uuid, "user"))
          /\ handed' = Insert(handed, f.email, partial_key(uuid))
          /\ UNCHANGED session
          /\ CommitAuth("register_page")

\* forgot_password_request: the session keeps the email of an account
forgot_password_request(email) ==
  /\ session' = IF email \in DOMAIN users THEN email ELSE session
  /\ last' = Response("forgot_password_request", 0, "ok")
  /\ UNCHANGED <<db, now, refused, inflight, users, handed, questions>>

\* ResetPasswordForm.validate_on_submit
ValidResetForm(answer, key, password) ==
  /\ DataRequired(answer)
  /\ DataRequired(key)
  /\ Len(password) >= MinPasswordLen

\* user.set_password(password)
set_password(table, email, password) ==
  [table EXCEPT ![email].password_hash = Hash(password, FreshSalt(@))]

\* reset_password_verify
reset_password_verify(answer, key, password) ==
  IF session = NoEmail \/ session \notin DOMAIN users
    THEN Refuse("reset_password_verify", 0, "rejected")
  ELSE IF ~ValidResetForm(answer, key, password)
    THEN Refuse("reset_password_verify", 0, "rejected")
  ELSE IF check_secret_answer(users[session], answer)
          /\ partial_key(users[session].fs_uniquifier) = key
    THEN /\ users' = set_password(users, session, password)
         /\ session' = NoEmail
         /\ UNCHANGED handed
         /\ CommitAuth("reset_password_verify")
  ELSE Refuse("reset_password_verify", 0, "rejected")

\* ForgotPasswordResetAPI.post
ForgotPasswordResetAPI_post(email, answer, key, password) ==
  IF email \notin DOMAIN users
    THEN Refuse("ForgotPasswordResetAPI_post", 0, "rejected")
  ELSE IF ~check_secret_answer(users[email], answer)
          \/ partial_key(users[email].fs_uniquifier) # key
    THEN Refuse("ForgotPasswordResetAPI_post", 0, "rejected")
  ELSE IF ~is_password_strong(password)
    THEN Refuse("ForgotPasswordResetAPI_post", 0, "rejected")
  ELSE /\ users' = set_password(users, email, password)
       /\ UNCHANGED <<session, handed>>
       /\ CommitAuth("ForgotPasswordResetAPI_post")

\* what ForgotPasswordGetQuestionAPI.post answers, always with status 200:
\* the username and the question of the account, or a fixed message
GetQuestionResponse(email) ==
  [op |-> "ForgotPasswordGetQuestionAPI_post", id |-> 0, code |-> "ok",
   body |-> IF email \in DOMAIN users
            THEN [username |-> users[email].username,
                  secret_question |-> users[email].secret_question]
            ELSE [message |-> "Details processed."]]

ForgotPasswordGetQuestionAPI_post(email) ==
  /\ last' = GetQuestionResponse(email)
  /\ UNCHANGED <<db, now, refused, inflight, auth>>

\* the requests that register accounts and reset passwords
NextAuth ==
  \/ Respond
  \/ Idle /\ \E e \in EmailInputs : ForgotPasswordGetQuestionAPI_post(e)
  \/ Idle /\ \E f \in RegisterInputs, uuid \in Uuids : RegisterAPI_post(f, uuid)
  \/ Idle /\ \E f \in RegisterInputs, uuid \in Uuids : register_page(f, uuid)
  \/ Idle /\ \E e \in EmailInputs : forgot_password_request(e)
  \/ Idle /\ \E a \in AnswerInputs, k \in KeyInputs, p \in NewPasswords :
        reset_password_verify(a, k, p)
  \/ Idle /\ \E e \in EmailInputs, a \in AnswerInputs, k \in KeyInputs, p \in NewPasswords :
        ForgotPasswordResetAPI_post(e, a, k, p)

SpecAuth == Init /\ [][NextAuth]_vars

(* ----------------------------- admin API ------------------------------ *)
\* LoginAPI.post: the roles claim of the token issued to an account
JwtRoles(u) == Roles(u)

\* mutant of before_request_func: every token passes
before_request_func_open(u) == FALSE

\* before_request_func answers 403 itself: the token carries no admin role
before_request_func(u) == "admin" \notin JwtRoles(u)

\* a read-only resource of the blueprint (UserListAPI.get,
\* ParkingAreaListAPI.get, CarListAPI.get, ParkingSpotListAPI.get)
AdminAPI_get(u) ==
  IF before_request_func(u)
  THEN Refuse("AdminAPI_get", 0, "forbidden")
  ELSE /\ last' = Response("AdminAPI_get", 0, "ok")
       /\ UNCHANGED <<db, now, refused, inflight, auth>>

\* a read-only page behind admin_required (admin_dashboard, admin_summary,
\* admin_all_parking, admin_users, admin_search, admin_requests,
\* admin_area_view and the chart data under /api/admin)
admin_view(u) ==
  IF ~has_role(u, "admin")
  THEN Refuse("admin_view", 0, "forbidden")
  ELSE /\ last' = Response("admin_view", 0, "ok")
       /\ UNCHANGED <<db, now, refused, inflight, auth>>

\* the question texts posted: a new one and a seeded one
QuestionInputs == { "What is your favorite color?", "What is your favorite book?" }

SecretQuestionListAPI_post(u, text) ==
  IF before_request_func(u)
  THEN Refuse("SecretQuestionListAPI_post", 0, "forbidden")
  ELSE IF text \in questions
  THEN Refuse("SecretQuestionListAPI_post", 0, "rejected")
  ELSE /\ questions' = questions \cup {text}
       /\ last' = Response("SecretQuestionListAPI_post", 0, "ok")
       /\ UNCHANGED <<db, now, refused, inflight, users, session, handed>>

\* the accounts posted to the API: dave, and a second "carol" with an empty
\* answer
ApiUserInputs == { f \in RegisterInputs : f.username = "dave" \/ f.secret_answer = << >> }

\* the identifier uuid4 gives an account made through the API
ApiUuids == { << 112, 45, 113, 45, 114, 45, 115, 45, 116 >> }

\* UserListAPI.post: no strength check, and no key in the response
UserListAPI_post(u, f, uuid) ==
  /\ \A e \in DOMAIN users : users[e].fs_uniquifier # uuid
  /\ IF before_request_func(u)
       THEN Refuse("UserListAPI_post", 0, "forbidden")
     ELSE IF ExistingUser(f.username, f.email)
       THEN Refuse("UserListAPI_post", 0, "rejected")
     ELSE IF f.secret_answer = << >>
       THEN Refuse("UserListAPI_post", 0, "error")
     ELSE /\ users' = Insert(users, f.email,
                              User(f.username, f.password, f.secret_answer, uuid, "user"))
          /\ UNCHANGED <<session, handed>>
          /\ CommitAuth("UserListAPI_post")

\* the area posted to the API: "Lot2" with the code "bbb" and one spot
ApiAreaInputs ==
  { [name |-> "Lot2", area_code |-> <<98, 98, 98>>, price_per_hour |-> 20000, num_spots |-> 1] }

\* ParkingSpot.spot_identifier.startswith(f"{area_code}-")
CodeInUse(area_code) ==
  LET prefix == area_code \o << Dash >> IN
  \E sp \in DOMAIN spots :
     /\ Len(spots[sp].spot_identifier) >= Len(prefix)
     /\ SubSeq(spots[sp].spot_identifier, 1, Len(prefix)) = prefix

ParkingAreaListAPI_post(u, data) ==
  IF before_request_func(u)
  THEN Refuse("ParkingAreaListAPI_post", 0, "forbidden")
  ELSE IF \E a \in DOMAIN areas : areas[a].name = data.name
  THEN Refuse("ParkingAreaListAPI_post", 0, "rejected")
  ELSE IF CodeInUse(Upper(data.area_code))
  THEN Refuse("ParkingAreaListAPI_post", 0, "rejected")
  ELSE LET id == NextId(areas) IN
       /\ areas' = Insert(areas, id, [name |-> data.name,
                                       price_per_hour |-> data.price_per_hour])
       /\ spots' = NewSpots(spots, id, Upper(data.area_code), data.num_spots)
       /\ Commit("ParkingAreaListAPI_post", id)
       /\ UNCHANGED <<cars, bookings, now>>

\* the cars posted to the API: "KA1" for alice or for an id no user has
ApiCarInputs ==
  { [license_plate |-> <<75, 65, 49>>, user_id |-> "alice"],
    [license_plate |-> <<75, 65, 49>>, user_id |-> "nobody"] }

CarListAPI_post(u, data) ==
  IF before_request_func(u)
  THEN Refuse("CarListAPI_post", 0, "forbidden")
  ELSE IF \E c \in DOMAIN cars : cars[c].license_plate = data.license_plate
  THEN Refuse("CarListAPI_post", 0, "rejected")
  ELSE IF data.user_id \notin Users
  THEN Refuse("CarListAPI_post", 0, "not_found")
  ELSE LET id == NextId(cars) IN
       /\ cars' = Insert(cars, id, [license_plate |-> data.license_plate,
                                     user_id |-> data.user_id])
       /\ Commit("CarListAPI_post", id)
       /\ UNCHANGED <<areas, spots, bookings, now>>

\* the statuses posted with a booking
ApiStatusInputs == {"active", "pending"}

\* the posted row names a user, a car or a spot that does not exist
Dangling(user_id, car_id, spot_id) ==
  user_id \notin Users \/ car_id \notin DOMAIN cars \/ spot_id \notin DOMAIN spots

\* BookingListAPI.post: the row is stored as posted, and the spot is marked
\* occupied when the posted status is 'active'. A row whose foreign keys name
\* no row is stored too, unless the database enforces foreign keys (SQLite
\* does not by default; the configured DATABASE_URL decides), in which case
\* the commit fails
BookingListAPI_post(u, user_id, car_id, spot_id, start_time, status) ==
  IF before_request_func(u)
  THEN Refuse("BookingListAPI_post", 0, "forbidden")
  ELSE \/ /\ Dangling(user_id, car_id, spot_id)
          /\ Refuse("BookingListAPI_post", 0, "error")
       \/ LET id == NextId(bookings) IN
          /\ bookings' = Insert(bookings, id,
                                [user_id |-> user_id, car_id |-> car_id, spot_id |-> spot_id,
                                 status |-> status, start_time |-> start_time,
                                 end_time |-> NULL, total_cost |-> NULL])
          /\ spots' = IF status = "active" THEN SetSpot(spots, spot_id, "occupied") ELSE spots
          /\ Commit("BookingListAPI_post", id)
          /\ UNCHANGED <<areas, cars, now>>

\* the bookings posted to the API: for every car, or a car id that is
\* missing, under the owner of the car (alice for the missing one), on every
\* spot or a spot id that is missing
ApiBookingInputs ==
  { [user_id |-> IF c \in DOMAIN cars THEN cars[c].user_id ELSE "alice",
     car_id |-> c, spot_id |-> sp, status |-> st] :
      c \in IdInputs(cars), sp \in IdInputs(spots), st \in ApiStatusInputs }

\* the form posted to the edit page: Lot1 at a new price
EditForms ==
  { [name |-> "Lot1", area_code |-> <<97, 97, 97>>, price_per_hour |-> 30000, max_spots |-> 1] }

admin_area_edit(u, area_id, f) ==
  IF ~has_role(u, "admin")
  THEN Refuse("admin_area_edit", 0, "forbidden")
  ELSE IF area_id \notin DOMAIN areas
  THEN Refuse("admin_area_edit", 0, "not_found")
  ELSE IF ~ValidLotForm(f)
  THEN Refuse("admin_area_edit", area_id, "rejected")
  ELSE IF \E a \in DOMAIN areas \ {area_id} : areas[a].name = f.name
  THEN \* the unique constraint on name fails the commit
       Refuse("admin_area_edit", area_id, "error")
  ELSE /\ areas' = [areas EXCEPT ![area_id].name = f.name,
                                  ![area_id].price_per_hour = f.price_per_hour]
       /\ Commit("admin_area_edit", area_id)
       /\ UNCHANGED <<spots, cars, bookings, now>>

\* the plate typed into the offline-booking form: " ka2"
ApiPlateInputs == { <<32, 107, 97, 50>> }

\* the accounts that call the admin operations: the admin and a user
ApiCallers == {"admin", "alice"}

\* the requests to the admin pages and to the admin API, with the user
\* booking request that gives them pending bookings to decide
NextApi ==
  \/ Respond
  \/ Idle /\ \E u \in ApiCallers : AdminAPI_get(u)
  \/ Idle /\ \E u \in ApiCallers : admin_view(u)
  \/ Idle /\ \E u \in ApiCallers, t \in QuestionInputs : SecretQuestionListAPI_post(u, t)
  \/ Idle /\ \E u \in ApiCallers, f \in ApiUserInputs, uuid \in ApiUuids :
        UserListAPI_post(u, f, uuid)
  \/ Idle /\ \E u \in ApiCallers, d \in ApiAreaInputs :
        NextId(areas) <= MaxApiAreas /\ ParkingAreaListAPI_post(u, d)
  \/ Idle /\ \E u \in ApiCallers, d \in ApiCarInputs : CarListAPI_post(u, d)
  \/ Idle /\ \E u \in ApiCallers, d \in ApiBookingInputs :
        NextId(bookings) <= MaxApiBookings
          /\ BookingListAPI_post(u, d.user_id, d.car_id, d.spot_id, now, d.status)
  \/ Idle /\ \E u \in ApiCallers, f \in AreaForms :
        NextId(areas) <= MaxApiAreas /\ admin_area_new(u, f)
  \/ Idle /\ \E u \in ApiCallers, a \in IdInputs(areas), f \in EditForms :
        admin_area_edit(u, a, f)
  \/ Idle /\ \E u \in ApiCallers, a \in IdInputs(areas) : admin_area_delete(u, a)
  \/ Idle /\ \E u \in ApiCallers, p \in ApiPlateInputs, a \in DOMAIN areas :
        NextId(bookings) <= MaxApiBookings /\ admin_offline_book(u, p, a)
  \/ Idle /\ \E u \in ApiCallers, b \in IdInputs(bookings) : admin_offline_release(u, b)
  \/ Idle /\ \E u \in ApiCallers, b \in IdInputs(bookings) : admin_request_approve(u, b)
  \/ Idle /\ \E u \in ApiCallers, b \in IdInputs(bookings) : admin_request_reject(u, b)
  \/ Idle /\ \E u \in ApiCallers, a \in DOMAIN areas, c \in DOMAIN cars :
        NextId(bookings) <= MaxApiBookings /\ user_book(u, a, c)

SpecApi == Init /\ [][NextApi]_vars

(* ------------------ area codes: creation and report ------------------- *)
\* the forms posted to /admin/areas/new: Lot1 with the code "aaa" and two
\* spots, and Lot2 with the same code and one spot
CodeForms ==
  { [name |-> "Lot1", area_code |-> <<97, 97, 97>>, price_per_hour |-> 12344, max_spots |-> 2],
    [name |-> "Lot2", area_code |-> <<97, 97, 97>>, price_per_hour |-> 20000, max_spots |-> 1] }

\* the areas posted to the API: Lot3 "bbb" with two spots, Lot4 "c-d" with
\* one, Lot5 "eee" with none, and Lot6 with the code "AAA"
ApiCodeInputs ==
  { [name |-> "Lot3", area_code |-> <<98, 98, 98>>, price_per_hour |-> 20000, num_spots |-> 2],
    [name |-> "Lot4", area_code |-> <<99, 45, 100>>, price_per_hour |-> 20000, num_spots |-> 1],
    [name |-> "Lot5", area_code |-> <<101, 101, 101>>, price_per_hour |-> 20000, num_spots |-> 0],
    [name |-> "Lot6", area_code |-> <<65, 65, 65>>, price_per_hour |-> 20000, num_spots |-> 1] }

\* area.spots
SpotsOf(area_id) == { sp \in DOMAIN spots : spots[sp].parking_area_id = area_id }

\* area.spots.first(): the row the table scan meets first
FirstSpot(area_id) == SetMin(SpotsOf(area_id))

\* first_spot.spot_identifier.split('-')[0] if first_spot else ""
ReportedCode(area_id) ==
  IF SpotsOf(area_id) = {} THEN << >>
  ELSE Split(spots[FirstSpot(area_id)].spot_identifier, Dash)[1]

\* api_admin_area_spot_status: the answer carries the area code
api_admin_area_spot_status(u, area_id) ==
  IF ~has_role(u, "admin")
  THEN Refuse("api_admin_area_spot_status", 0, "forbidden")
  ELSE IF area_id \notin DOMAIN areas
  THEN Refuse("api_admin_area_spot_status", 0, "not_found")
  ELSE /\ last' = [op |-> "api_admin_area_spot_status", id |-> area_id, code |-> "ok",
                    area_code |-> [a \in {area_id} |-> ReportedCode(a)]]
       /\ UNCHANGED <<db, now, refused, inflight, auth>>

\* ParkingAreaListAPI.get: the answer lists every area with its code
ParkingAreaListAPI_get(u) ==
  IF before_request_func(u)
  THEN Refuse("ParkingAreaListAPI_get", 0, "forbidden")
  ELSE /\ last' = [op |-> "ParkingAreaListAPI_get", id |-> 0, code |-> "ok",
                    area_code |-> [a \in DOMAIN areas |-> ReportedCode(a)]]
       /\ UNCHANGED <<db, now, refused, inflight, auth>>

\* the requests that create, delete and report areas
NextArea ==
  \/ Respond
  \/ Idle /\ \E u \in ApiCallers, f \in CodeForms :
        NextId(areas) <= MaxAreas /\ admin_area_new(u, f)
  \/ Idle /\ \E u \in ApiCallers, d \in ApiCodeInputs :
        NextId(areas) <= MaxAreas /\ ParkingAreaListAPI_post(u, d)
  \/ Idle /\ \E u \in ApiCallers, a \in IdInputs(areas) : admin_area_delete(u, a)
  \/ Idle /\ \E u \in ApiCallers, a \in IdInputs(areas) : api_admin_area_spot_status(u, a)
  \/ Idle /\ \E u \in ApiCallers : ParkingAreaListAPI_get(u)

SpecArea == Init /\ [][NextArea]_vars

(* ============================== claims ================================ *)
Open == {"active", "pending"}
Closed == {"completed", "rejected"}

ActiveOn(s) == {b \in DOMAIN bookings : bookings[b].spot_id = s /\ bookings[b].status = "active"}

OpenOf(c) == {b \in DOMAIN bookings : bookings[b].car_id = c /\ bookings[b].status \in Open}

\* the bookings that exist before and after a step
Kept == DOMAIN bookings \cap DOMAIN bookings'

\* C1: in every reachable state each parking spot is referenced by at most
\* one booking whose status is active.
C1_OneActiveBookingPerSpot ==
  \A s \in DOMAIN spots : Cardinality(ActiveOn(s)) <= 1

\* C2: in every reachable state each car has at most one booking whose
\* status is active or pending.
C2_OneOpenBookingPerCar ==
  \A c \in DOMAIN cars \cup {bookings[b].car_id : b \in DOMAIN bookings} :
     Cardinality(OpenOf(c)) <= 1

\* C2 witness: a car that was booked again after an earlier booking of it
\* ended, and holds exactly one open booking.
C2_Witness ==
  \E c \in DOMAIN cars :
     /\ Cardinality(OpenOf(c)) = 1
     /\ \E b \in DOMAIN bookings : bookings[b].car_id = c /\ bookings[b].status \in Closed

\* C3: a booking's status changes only along pending -> active, pending ->
\* rejected and active -> completed, and once a booking is completed or
\* rejected no step changes its status, end_time or total_cost.
C3_LifecycleOrder ==
  [][\A b \in Kept :
       /\ bookings'[b].status # bookings[b].status =>
            <<bookings[b].status, bookings'[b].status>> \in
               {<<"pending", "active">>, <<"pending", "rejected">>, <<"active", "completed">>}
       /\ bookings[b].status \in Closed =>
            /\ bookings'[b].status = bookings[b].status
            /\ bookings'[b].end_time = bookings[b].end_time
            /\ bookings'[b].total_cost = bookings[b].total_cost]_vars

\* the hours the claim bills for a session of the given length in seconds:
\* one hour up to an hour, the exact count for whole hours, the next whole
\* hour otherwise
ClaimedHours(elapsed) ==
  IF elapsed <= 3600 THEN 1
  ELSE IF elapsed % 3600 = 0 THEN elapsed \div 3600
  ELSE (elapsed \div 3600) + 1

\* C4: whenever a release moves a booking into completed, total_cost equals
\* round(max(1, ceil(elapsed_seconds / 3600)) * price_per_hour, 2) with
\* elapsed_seconds = end_time - start_time and the price of the spot's area.
C4_ReleaseCost ==
  [][\A b \in Kept :
       bookings[b].status # "completed" /\ bookings'[b].status = "completed" =>
         bookings'[b].total_cost =
           Round2(ClaimedHours(bookings'[b].end_time - bookings'[b].start_time)
                  * areas'[spots'[bookings'[b].spot_id].parking_area_id].price_per_hour)]_vars

\* C4 witness: a completed session of an hour and a half, billed two hours
\* at 12.344 an hour: 24.69.
C4_Witness ==
  \E b \in DOMAIN bookings :
     /\ bookings[b].status = "completed"
     /\ bookings[b].end_time - bookings[b].start_time = 5400
     /\ bookings[b].total_cost = 24690

\* the place of the first '-' of a spot identifier
DashAt(ident) == CHOOSE i \in 1..Len(ident) : ident[i] = 45 /\ \A j \in 1..(i - 1) : ident[j] # 45

RECURSIVE DigitsValue(_)
DigitsValue(d) ==
  IF Len(d) = 0 THEN 0
  ELSE 10 * DigitsValue(SubSeq(d, 1, Len(d) - 1)) + (d[Len(d)] - 48)

\* the number run of a spot identifier, read as an integer
NumberOf(ident) == DigitsValue(SubSeq(ident, DashAt(ident) + 1, Len(ident)))

\* C5: a booking that is created gets the available spot of the area whose
\* identifier is smallest with the number run compared as an integer.
C5_NumericFillOrder ==
  [][\A b \in DOMAIN bookings' \ DOMAIN bookings :
       LET s == bookings'[b].spot_id
           free == Available(spots[s].parking_area_id)
       IN /\ s \in free
          /\ \A t \in free :
               NumberOf(spots[s].spot_identifier) <= NumberOf(spots[t].spot_identifier)]_vars

\* a release request for booking b that is not active, by its owner through
\* user_release or by an admin through admin_offline_release
ReleaseOfNonActive(b) ==
  /\ Idle
  /\ bookings[b].status # "active"
  /\ \/ user_release(bookings[b].user_id, b)
     \/ \E u \in Callers : has_role(u, "admin") /\ admin_offline_release(u, b)

\* C6: a release request on a booking that is not active is refused and
\* changes no booking and no spot.
C6_ReleaseNeedsActive ==
  [][\A b \in DOMAIN bookings :
       ReleaseOfNonActive(b) => refused' # NoRefusal /\ UNCHANGED <<bookings, spots>>]_vars

\* an approve, reject or cancel request for booking b that is not pending
DecisionOfNonPending(b) ==
  /\ Idle
  /\ bookings[b].status # "pending"
  /\ \E u \in Callers :
        \/ admin_request_approve(u, b)
        \/ admin_request_reject(u, b)
        \/ user_cancel_pending(u, b)

\* C7: approve, reject and cancel applied to a booking that is not pending
\* are refused and change nothing.
C7_DecisionNeedsPending ==
  [][\A b \in DOMAIN bookings :
       DecisionOfNonPending(b) => refused' # NoRefusal /\ UNCHANGED db]_vars

\* C7 witness: an admin's approve of an active booking was refused.
C7_Witness ==
  /\ refused.op = "admin_request_approve" /\ refused.code = "rejected"
  /\ refused.id \in DOMAIN bookings
  /\ bookings[refused.id].status = "active"

\* the request that repeats, on the same booking, the operation that was
\* committed last
RepeatedOperation(b) ==
  /\ Idle
  /\ last.id = b /\ last.code = "ok"
  /\ \E u \in Callers :
        \/ last.op = "admin_request_approve" /\ admin_request_approve(u, b)
        \/ last.op = "admin_request_reject" /\ admin_request_reject(u, b)
        \/ last.op = "user_cancel_pending" /\ user_cancel_pending(u, b)
        \/ last.op = "user_release" /\ user_release(u, b)
        \/ last.op = "admin_offline_release" /\ admin_offline_release(u, b)

\* C8: approve, reject, cancel and release applied a second time in a row to
\* the same booking are refused and leave the state of the first application.
C8_Idempotent ==
  [][\A b \in DOMAIN bookings :
       RepeatedOperation(b) => refused' # NoRefusal /\ UNCHANGED db]_vars

\* C8 witness: the owner's second release of a booking, straight after the
\* first, was refused, the clock having moved in between.
C8_Witness ==
  /\ last.op = "user_release" /\ last.code = "ok"
  /\ refused = Response("user_release", last.id, "rejected")
  /\ bookings[last.id].status = "completed"
  /\ bookings[last.id].end_time < now

\* the area has no available spot
Full(area_id) ==
  \A s \in DOMAIN spots : spots[s].parking_area_id = area_id => spots[s].status # "available"

\* a user_book request of the owner of an existing car, or an
\* admin_offline_book request of an admin for an existing area, that finds the
\* area full or the car already holding an active or pending booking
RefusedBooking ==
  /\ Idle
  /\ \/ \E u \in Callers, a \in IdInputs(areas), c \in DOMAIN cars :
          /\ ~has_role(u, "admin") /\ cars[c].user_id = u
          /\ Full(a) \/ OpenOf(c) # {}
          /\ user_book(u, a, c)
     \/ \E u \in Callers, p \in PlateInputs, a \in DOMAIN areas :
          /\ has_role(u, "admin")
          /\ Full(a) \/ \E c \in DOMAIN cars :
                           cars[c].license_plate = Upper(Strip(p)) /\ OpenOf(c) # {}
          /\ admin_offline_book(u, p, a)

\* C9: a booking request refused for a full area or a car that already has an
\* active or pending booking changes nothing: no booking, no spot status, no
\* new car.
C9_RefusedBookingChangesNothing ==
  [][RefusedBooking => refused' # NoRefusal /\ UNCHANGED db]_vars

\* C9 witness: an offline booking for a plate that has no car was refused in
\* a full area, and no car with that plate exists.
C9_Witness ==
  /\ refused = Response("admin_offline_book", 0, "rejected")
  /\ \E a \in DOMAIN areas : Full(a)
  /\ \A p \in PlateInputs : \A c \in DOMAIN cars : cars[c].license_plate # Upper(Strip(p))

\* a delete request for an area with an occupied spot, or for a car with an
\* active booking
DeleteWithDependents ==
  /\ Idle
  /\ \/ \E u \in Callers, a \in DOMAIN areas :
          /\ \E s \in DOMAIN spots :
                spots[s].parking_area_id = a /\ spots[s].status = "occupied"
          /\ admin_area_delete(u, a)
     \/ \E u \in Callers, c \in DOMAIN cars :
          /\ \E b \in DOMAIN bookings :
                bookings[b].car_id = c /\ bookings[b].status = "active"
          /\ user_car_delete(u, c)

\* C10: deleting an area with an occupied spot, or a car with an active
\* booking, is refused and deletes nothing.
C10_DeleteRefused ==
  [][DeleteWithDependents => refused' # NoRefusal /\ UNCHANGED db]_vars

\* C10 witness: an admin's delete of an area with an occupied spot was
\* refused.
C10_Witness ==
  /\ refused.op = "admin_area_delete" /\ refused.code = "rejected"
  /\ refused.id \in DOMAIN areas
  /\ \E s \in DOMAIN spots :
        spots[s].parking_area_id = refused.id /\ spots[s].status = "occupied"

\* the steps of the scenario book -> approve -> release on one booking, each
\* the next committed request after the one before it
ScenarioStep ==
  /\ \A b \in DOMAIN bookings' \ DOMAIN bookings :
       bookings'[b].status = "pending" =>
         /\ spots[bookings'[b].spot_id].status = "available"
         /\ spots'[bookings'[b].spot_id].status = "reserved"
  /\ \A b \in DOMAIN bookings :
       LET s == bookings[b].spot_id IN
       /\ last = Response("user_book", b, "ok")
          /\ last' = Response("admin_request_approve", b, "ok") =>
            /\ bookings[b].status = "pending" /\ spots[s].status = "reserved"
            /\ bookings'[b].status = "active" /\ spots'[s].status = "occupied"
            /\ bookings'[b].start_time = now
       /\ last = Response("admin_request_approve", b, "ok")
          /\ last' \in {Response("user_release", b, "ok"),
                        Response("admin_offline_release", b, "ok")} =>
            /\ bookings[b].status = "active" /\ spots[s].status = "occupied"
            /\ bookings'[b].status = "completed" /\ spots'[s].status = "available"
            /\ bookings'[b].end_time = now
            /\ bookings'[b].total_cost =
                 Round2(ClaimedHours(now - bookings[b].start_time) * Price(s))
            /\ ~HasOpenBooking(bookings', bookings[b].car_id)

\* C11: user_book, then approve, then release take a booking through pending,
\* active, completed and its spot through reserved, occupied, available; after
\* the release the spot is available and the car has no open booking, so both
\* can be booked again; at 20 an hour a release 1 h 10 min after approval is
\* billed 2 hours, 40.00.
C11_BookApproveRelease ==
  /\ [][ScenarioStep]_vars
  /\ [](total_cost(0, 4200, 20000) = 40000)

\* C11 witness: a car booked again on the same spot, straight after its
\* earlier booking was approved, parked for an hour and a half and released.
C11_Witness ==
  \E b, c \in DOMAIN bookings :
     /\ b < c
     /\ bookings[b].status = "completed"
     /\ bookings[b].end_time - bookings[b].start_time = 5400
     /\ bookings[b].total_cost = 24690
     /\ bookings[c].car_id = bookings[b].car_id
     /\ bookings[c].spot_id = bookings[b].spot_id
     /\ bookings[c].status = "pending"
     /\ last = Response("user_book", c, "ok")

\* user_book, called by u for area a and car c, went through to its commit
SuccessfulBook(u, a, c) ==
  /\ Idle
  /\ user_book(u, a, c)
  /\ refused' = NoRefusal

ApproveOfPending(b) ==
  /\ Idle
  /\ bookings[b].status = "pending"
  /\ \E u \in Callers : has_role(u, "admin") /\ admin_request_approve(u, b)

\* what approve does to the booking and to the status of its spot
ApproveEffect(b) ==
  /\ bookings' = [bookings EXCEPT ![b].status = "active", ![b].start_time = now]
  /\ spots' = [spots EXCEPT ![bookings[b].spot_id].status = "occupied"]

\* C13: approving a pending booking makes it active with start_time the
\* instant of approval and takes its spot from reserved to occupied; no other
\* booking and no other spot changes.
C13_ApproveEffect ==
  [][\A b \in DOMAIN bookings :
       ApproveOfPending(b) =>
         /\ spots[bookings[b].spot_id].status = "reserved"
         /\ ApproveEffect(b)]_vars

\* a reject request of an admin, or a cancel request of the owner, for
\* booking b, which is pending
RejectOrCancelOfPending(b) ==
  /\ Idle
  /\ bookings[b].status = "pending"
  /\ \/ \E u \in Callers : has_role(u, "admin") /\ admin_request_reject(u, b)
     \/ user_cancel_pending(bookings[b].user_id, b)

\* a cancel request for booking b by a user who does not own it
CancelByStranger(b) ==
  /\ Idle
  /\ \E u \in Callers : u # bookings[b].user_id /\ user_cancel_pending(u, b)

\* C14: rejecting a pending booking, or cancelling it as its owner, makes the
\* booking rejected and its spot available and records no cost; a cancel by a
\* user who does not own the booking is refused (403) and changes nothing.
C14_RejectCancelEffect ==
  [][\A b \in DOMAIN bookings :
       /\ RejectOrCancelOfPending(b) =>
            /\ refused' = NoRefusal
            /\ bookings' = [bookings EXCEPT ![b].status = "rejected"]
            /\ bookings'[b].total_cost = NULL /\ bookings'[b].end_time = NULL
            /\ spots' = [spots EXCEPT ![bookings[b].spot_id].status = "available"]
            /\ UNCHANGED <<areas, cars>>
       /\ CancelByStranger(b) =>
            /\ refused' = Response("user_cancel_pending", b, "forbidden")
            /\ UNCHANGED db]_vars

\* C14 witness: bob's cancel of alice's pending booking was refused, an
\* earlier booking of hers having been rejected or cancelled at no cost.
C14_Witness ==
  /\ \E x \in DOMAIN bookings :
        /\ bookings[x].status = "rejected"
        /\ bookings[x].total_cost = NULL
  /\ refused = Response("user_cancel_pending", refused.id, "forbidden")
  /\ refused.id \in DOMAIN bookings
  /\ bookings[refused.id].status = "pending"
  /\ bookings[refused.id].user_id = "alice"
  /\ spots[bookings[refused.id].spot_id].status = "reserved"

\* admin_offline_book, called by u for plate p and area a, went through to
\* its commit
SuccessfulOfflineBook(u, p, a) ==
  /\ Idle
  /\ admin_offline_book(u, p, a)
  /\ refused' = NoRefusal

\* C15: a successful offline booking for a plate of no car adds a car with
\* that plate (trimmed, upper-cased) owned by offline_user and, in the same
\* step, an active booking of that car starting now on a spot that goes from
\* available to occupied; for the plate of an existing car no car is added and
\* the booking is made for the car's owner.
C15_OfflineBookEffect ==
  [][\A u \in Callers, p \in PlateInputs, a \in DOMAIN areas :
       SuccessfulOfflineBook(u, p, a) =>
         LET plate == Upper(Strip(p))
             known == {c \in DOMAIN cars : cars[c].license_plate = plate}
         IN \E b \in DOMAIN bookings' \ DOMAIN bookings, c \in DOMAIN cars' :
               LET s == bookings'[b].spot_id IN
               /\ cars'[c].license_plate = plate
               /\ \A x \in DOMAIN cars : cars'[x] = cars[x]
               /\ known = {} =>
                    /\ DOMAIN cars' = DOMAIN cars \cup {c} /\ c \notin DOMAIN cars
                    /\ cars'[c].user_id = "offline_user"
               /\ known # {} => c \in known /\ cars' = cars
               /\ DOMAIN bookings' = DOMAIN bookings \cup {b}
               /\ \A x \in DOMAIN bookings : bookings'[x] = bookings[x]
               /\ bookings'[b] = [user_id |-> cars'[c].user_id, car_id |-> c, spot_id |-> s,
                                  status |-> "active", start_time |-> now,
                                  end_time |-> NULL, total_cost |-> NULL]
               /\ s \in DOMAIN spots
               /\ spots[s].parking_area_id = a
               /\ spots[s].status = "available"
               /\ spots' = [spots EXCEPT ![s].status = "occupied"]
               /\ areas' = areas]_vars

\* C15 witness: an offline booking for alice's plate was just made in her
\* name, after an offline booking for an unknown plate had made a car of
\* offline_user.
C15_Witness ==
  /\ last.op = "admin_offline_book" /\ last.id \in DOMAIN bookings
  /\ bookings[last.id].status = "active"
  /\ bookings[last.id].user_id = "alice"
  /\ spots[bookings[last.id].spot_id].status = "occupied"
  /\ \E c \in DOMAIN cars, x \in DOMAIN bookings :
        /\ cars[c].user_id = "offline_user"
        /\ bookings[x].car_id = c /\ bookings[x].user_id = "offline_user"

\* the commit of the booking request in slot t
CommitOfBooking(t) ==
  /\ Idle
  /\ inflight[t].new # << >>
  /\ CommitRequest(t)

\* C16: spot assignment is not re-checked at commit: a booking request
\* commits its booking on the spot it read as available, whatever became of
\* that spot since, so two requests for different cars that both read the
\* same spot both commit a booking on it.
C16_NoRecheckAtCommit ==
  [][\A t \in Slots :
       CommitOfBooking(t) =>
         \E b \in DOMAIN bookings' \ DOMAIN bookings :
            /\ bookings'[b] = inflight[t].new[1]
            /\ spots'[bookings'[b].spot_id].status = inflight[t].spot_status]_vars

\* C16 witness: two open bookings of different cars on one spot, the other
\* spot of the area still available.
C16_Witness ==
  \E b, c \in DOMAIN bookings :
     /\ b # c
     /\ bookings[b].spot_id = bookings[c].spot_id
     /\ bookings[b].car_id # bookings[c].car_id
     /\ bookings[b].status \in Open /\ bookings[c].status \in Open
     /\ \E s \in DOMAIN spots :
           /\ spots[s].parking_area_id = spots[bookings[b].spot_id].parking_area_id
           /\ spots[s].status = "available"

\* the status a lifecycle change gives the spot of a booking that takes the
\* given status
SpotStatusFor(status) ==
  IF status = "pending" THEN "reserved"
  ELSE IF status = "active" THEN "occupied"
  ELSE "available"

\* the bookings a step creates or moves to another status
Moved == {b \in DOMAIN bookings' :
            b \notin DOMAIN bookings \/ bookings'[b].status # bookings[b].status}

\* C17: under any interleaving of requests, a committed step that creates a
\* booking or changes a booking's status leaves the booking's spot in the
\* status of that change, a step that changes a spot's status changes a
\* booking on it, and a refusal changes nothing.
C17_NoPartialState ==
  [][/\ \A b \in Moved :
          spots'[bookings'[b].spot_id].status = SpotStatusFor(bookings'[b].status)
     /\ \A s \in DOMAIN spots :
          spots'[s].status # spots[s].status => \E b \in Moved : bookings'[b].spot_id = s
     /\ refused' # refused /\ refused' # NoRefusal => UNCHANGED db]_vars

\* the characters of the identifier strictly between its first and its last dash
MiddleSegments(fs_uniquifier) ==
  LET dashes == { i \in 1..Len(fs_uniquifier) : fs_uniquifier[i] = Dash }
  IN  IF Cardinality(dashes) < 2 THEN << >>
      ELSE SubSeq(fs_uniquifier, SetMin(dashes) + 1, SetMax(dashes) - 1)

\* the reset request for account e with this answer and key, by either path
ResetRequest(e, a, k) ==
  \E p \in NewPasswords :
    \/ ForgotPasswordResetAPI_post(e, a, k, p)
    \/ session = e /\ reset_password_verify(a, k, p)

\* both checks of the reset pass for account e
BothChecksPass(e, a, k) ==
  /\ e \in DOMAIN users
  /\ users[e].secret_answer_hash.preimage = Strip(Lower(a))
  /\ k = MiddleSegments(users[e].fs_uniquifier)

PasswordChanged(e) ==
  /\ e \in DOMAIN users
  /\ e \in DOMAIN users'
  /\ users'[e].password_hash # users[e].password_hash

\* C18: a password reset, by the API or by the web form, changes an account's
\* password hash only if the submitted answer, lowered and trimmed, is the
\* stored one and the submitted key is the middle dash-separated segments of
\* the account's fs_uniquifier; when either check fails no account changes
C18_ResetNeedsBothChecks ==
  [][ /\ \/ UNCHANGED users
          \/ \A e \in EmailInputs, a \in AnswerInputs, k \in KeyInputs :
                BothChecksPass(e, a, k) \/ ~ResetRequest(e, a, k)
      /\ \A e \in DOMAIN users :
           PasswordChanged(e) =>
             \E a \in AnswerInputs, k \in KeyInputs :
               BothChecksPass(e, a, k) /\ ResetRequest(e, a, k) ]_vars

\* a reset changed an account's password and a later API reset is refused
C18_Witness ==
  /\ \E e \in DOMAIN users : users[e].password_hash.preimage \in NewPasswords
  /\ refused.op = "ForgotPasswordResetAPI_post"

\* a reset of account e that presents the key its registration handed out and
\* a correct answer, with a new password the path accepts
ResetWithHandedKey(e, a, p) ==
  /\ users[e].secret_answer_hash.preimage = Strip(Lower(a))
  /\ \/ is_password_strong(p) /\ ForgotPasswordResetAPI_post(e, a, handed[e], p)
     \/ session = e /\ reset_password_verify(a, handed[e], p)

\* C19: the secret key handed out at registration (the secret_key field of the
\* API response, or the key shown after the web registration), presented with
\* the correct secret answer, is accepted by the password reset of that
\* account: the request is not refused and the password changes
C19_KeyRoundTrip ==
  [][ \A e \in DOMAIN handed, a \in AnswerInputs, p \in NewPasswords :
        ResetWithHandedKey(e, a, p) =>
          refused' = NoRefusal /\ PasswordChanged(e) ]_vars

\* an operation of the admin API called with the token of account u
AdminApiCall(u) ==
  \/ AdminAPI_get(u)
  \/ \E t \in QuestionInputs : SecretQuestionListAPI_post(u, t)
  \/ \E f \in ApiUserInputs, uuid \in ApiUuids : UserListAPI_post(u, f, uuid)
  \/ \E d \in ApiAreaInputs : ParkingAreaListAPI_post(u, d)
  \/ \E d \in ApiCarInputs : CarListAPI_post(u, d)
  \/ \E d \in ApiBookingInputs :
       BookingListAPI_post(u, d.user_id, d.car_id, d.spot_id, now, d.status)

\* a route under /admin requested in the session of account u
AdminWebCall(u) ==
  \/ admin_view(u)
  \/ \E f \in AreaForms : admin_area_new(u, f)
  \/ \E a \in IdInputs(areas), f \in EditForms : admin_area_edit(u, a, f)
  \/ \E a \in IdInputs(areas) : admin_area_delete(u, a)
  \/ \E p \in ApiPlateInputs, a \in DOMAIN areas : admin_offline_book(u, p, a)
  \/ \E b \in IdInputs(bookings) :
       \/ admin_offline_release(u, b)
       \/ admin_request_approve(u, b)
       \/ admin_request_reject(u, b)

\* C20: every admin operation, a resource under /api/admin or a route under
\* /admin, called by an account that has not the admin role is refused with
\* 403 and changes nothing in the database
C20_AdminOnly ==
  [][ \A u \in ApiCallers :
        "admin" \notin Roles(u) /\ (AdminApiCall(u) \/ AdminWebCall(u)) =>
          /\ refused'.code = "forbidden"
          /\ UNCHANGED <<db, users, questions>> ]_vars

\* alice's token was refused by the admin API while a booking awaits a decision
C20_Witness ==
  /\ refused = Response("CarListAPI_post", 0, "forbidden")
  /\ \E b \in DOMAIN bookings : bookings[b].status = "pending"

\* the step creates an area from the code and the number of spots submitted,
\* through the web form or through the API
AreaCreated(code, n) ==
  /\ DOMAIN areas' # DOMAIN areas
  /\ \/ \E u \in ApiCallers, f \in CodeForms :
          f.area_code = code /\ f.max_spots = n /\ admin_area_new(u, f)
     \/ \E u \in ApiCallers, d \in ApiCodeInputs :
          d.area_code = code /\ d.num_spots = n /\ ParkingAreaListAPI_post(u, d)

\* the identifier is prefix-N in decimal, without leading zero, N in 1..n
NumberedUnder(ident, prefix, n) ==
  LET digits == SubSeq(ident, Len(prefix) + 2, Len(ident)) IN
  /\ Len(ident) >= Len(prefix) + 2
  /\ SubSeq(ident, 1, Len(prefix)) = prefix
  /\ ident[Len(prefix) + 1] = 45
  /\ \A i \in 1..Len(digits) : digits[i] >= 48 /\ digits[i] <= 57
  /\ digits[1] # 48
  /\ DigitsValue(digits) \in 1..n

\* C21: creating an area with code C and N spots, by the web form or by the
\* admin API, adds exactly N spots, all available, all of the new area, with
\* the pairwise distinct identifiers C'-1 .. C'-N, C' being C in upper case,
\* and leaves every other spot as it was
C21_CreationProvisionsSpots ==
  [][ \A code \in { f.area_code : f \in CodeForms } \cup { d.area_code : d \in ApiCodeInputs },
         n \in { f.max_spots : f \in CodeForms } \cup { d.num_spots : d \in ApiCodeInputs } :
        AreaCreated(code, n) =>
          LET created == DOMAIN spots' \ DOMAIN spots
              area == CHOOSE a \in DOMAIN areas' : a \notin DOMAIN areas
          IN /\ Cardinality(created) = n
             /\ Cardinality({ spots'[sp].spot_identifier : sp \in created }) = n
             /\ \A sp \in created :
                  /\ spots'[sp].status = "available"
                  /\ spots'[sp].parking_area_id = area
                  /\ NumberedUnder(spots'[sp].spot_identifier, Upper(code), n)
             /\ \A sp \in DOMAIN spots : sp \in DOMAIN spots' /\ spots'[sp] = spots[sp] ]_vars

\* Lot1, made by the web form, and Lot3, made by the API, each with two spots
C21_Witness ==
  \E a, b \in DOMAIN areas :
    /\ areas[a].name = "Lot1" /\ areas[b].name = "Lot3"
    /\ Cardinality({ sp \in DOMAIN spots : spots[sp].parking_area_id = a }) = 2
    /\ Cardinality({ sp \in DOMAIN spots : spots[sp].parking_area_id = b }) = 2

\* the part of a spot identifier before its first '-'
CodePrefix(ident) ==
  LET dashes == { i \in 1..Len(ident) : ident[i] = 45 } IN
  IF dashes = {} THEN ident ELSE SubSeq(ident, 1, SetMin(dashes) - 1)

\* C22: an area code identifies its area: no two distinct areas have spots
\* whose identifiers share the prefix before the first '-', whether the web
\* form or the admin API created them
C22_CodeIdentifiesArea ==
  \A s1, s2 \in DOMAIN spots :
    CodePrefix(spots[s1].spot_identifier) = CodePrefix(spots[s2].spot_identifier)
      => spots[s1].parking_area_id = spots[s2].parking_area_id

\* the code the two reports give for an area created with code and n spots
ExpectedReport(code, n) == IF n >= 1 THEN Upper(code) ELSE << >>

\* C23: the area code reported for an area, by GET /api/admin/parking-areas
\* and by the spot-status endpoint, is the code supplied at its creation in
\* upper case when the area has a spot, and the empty string when it has
\* none: the report is right when the area is created, stays the same while
\* the area exists, and is what both answers carry
C23_ReportedCode ==
  [][ /\ \A code \in { f.area_code : f \in CodeForms } \cup { d.area_code : d \in ApiCodeInputs },
            n \in { f.max_spots : f \in CodeForms } \cup { d.num_spots : d \in ApiCodeInputs } :
           AreaCreated(code, n) =>
             \A a \in DOMAIN areas' \ DOMAIN areas :
               ReportedCode(a)' = ExpectedReport(code, n)
      /\ \A a \in DOMAIN areas \cap DOMAIN areas' : ReportedCode(a)' = ReportedCode(a)
      /\ \A u \in ApiCallers :
           /\ ParkingAreaListAPI_get(u) /\ last' # last =>
                \A a \in DOMAIN areas : last'.area_code[a] = ReportedCode(a)
           /\ \A a \in DOMAIN areas :
                api_admin_area_spot_status(u, a) /\ last' # last =>
                  last'.area_code[a] = ReportedCode(a) ]_vars

\* C24: POST /api/auth/forgot-password/get-question answers 200 whether or
\* not the email has an account, and the answer is the same for an email
\* with an account as for one without: it cannot be used to find accounts
C24_NoAccountEnumeration ==
  [][ \A e \in EmailInputs :
        ForgotPasswordGetQuestionAPI_post(e) =>
          /\ last'.code = "ok"
          /\ \A other \in EmailInputs : GetQuestionResponse(other) = last' ]_vars

\* the bookings of the given status that reference the spot
BookingsOn(sp, status) ==
  { b \in DOMAIN bookings : bookings[b].spot_id = sp /\ bookings[b].status = status }

\* C25: spot status and bookings agree in every state the sequential web
\* operations reach: a spot is occupied iff exactly one active booking
\* references it, reserved iff exactly one pending booking and no active one
\* references it, and available iff no pending or active booking references it
C25_SpotMatchesBookings ==
  \A sp \in DOMAIN spots :
    /\ spots[sp].status = "occupied" <=> Cardinality(BookingsOn(sp, "active")) = 1
    /\ spots[sp].status = "reserved" <=>
         Cardinality(BookingsOn(sp, "pending")) = 1 /\ BookingsOn(sp, "active") = {}
    /\ spots[sp].status = "available" <=>
         BookingsOn(sp, "pending") = {} /\ BookingsOn(sp, "active") = {}

\* a request of the user routes made in the session of account u
UserRequest(u) ==
  \/ \E a \in IdInputs(areas) \cup {0}, c \in IdInputs(cars) \cup {0} : user_book(u, a, c)
  \/ \E b \in IdInputs(bookings) : user_cancel_pending(u, b) \/ user_release(u, b)
  \/ \E c \in IdInputs(cars) : user_car_delete(u, c)

\* the spot is held by a pending or active booking of an account other than u
HeldByOther(sp, u) ==
  \E b \in DOMAIN bookings :
    /\ bookings[b].spot_id = sp
    /\ bookings[b].user_id # u
    /\ bookings[b].status \in {"pending", "active"}

\* C26: a request of a user who is no admin (user_book, user_cancel_pending,
\* user_release, user_car_delete) changes no booking and no car of another
\* user, and does not change the status of a spot held by another user's
\* pending or active booking
C26_UserIsolation ==
  [][ \A u \in Callers :
        "admin" \notin Roles(u) /\ UserRequest(u) =>
          /\ \A b \in DOMAIN bookings :
               bookings[b].user_id # u =>
                 b \in DOMAIN bookings' /\ bookings'[b] = bookings[b]
          /\ \A c \in DOMAIN cars :
               cars[c].user_id # u => c \in DOMAIN cars' /\ cars'[c] = cars[c]
          /\ \A sp \in DOMAIN spots :
               HeldByOther(sp, u) =>
                 sp \in DOMAIN spots' /\ spots'[sp].status = spots[sp].status ]_vars

\* every booking references an existing car, user and spot, and every spot an
\* existing area
ReferencesExist ==
  /\ \A b \in DOMAIN bookings :
       /\ bookings[b].car_id \in DOMAIN cars
       /\ bookings[b].user_id \in Users
       /\ bookings[b].spot_id \in DOMAIN spots
  /\ \A sp \in DOMAIN spots : spots[sp].parking_area_id \in DOMAIN areas

\* a successful area deletion leaves no spot of the area and no booking on
\* one of its spots; a successful car deletion leaves no booking of the car
DeletionCascades ==
  /\ \A u \in Callers, a \in DOMAIN areas :
       admin_area_delete(u, a) /\ a \notin DOMAIN areas' =>
         /\ \A sp \in DOMAIN spots' : spots'[sp].parking_area_id # a
         /\ \A b \in DOMAIN bookings' :
              ~(bookings'[b].spot_id \in DOMAIN spots
                  /\ spots[bookings'[b].spot_id].parking_area_id = a)
  /\ \A u \in Callers, c \in DOMAIN cars :
       user_car_delete(u, c) /\ c \notin DOMAIN cars' =>
         \A b \in DOMAIN bookings' : bookings'[b].car_id # c

\* C27: referential integrity under deletion: in every reachable state every
\* booking references an existing car, user and spot and every spot an
\* existing area; a successful area deletion removes the area's spots and
\* every booking on them, pending ones included, and a successful car
\* deletion removes the car's bookings
C27_ReferentialIntegrity == [] ReferencesExist /\ [][DeletionCascades]_vars

\* C28: in every state the web lifecycle operations reach, end_time and
\* total_cost are set exactly for the completed bookings: a pending, active
\* or rejected booking has neither, a completed booking has both
C28_CompletedHasTimeAndCost ==
  \A b \in DOMAIN bookings :
    /\ bookings[b].status = "completed" =>
         bookings[b].end_time # NULL /\ bookings[b].total_cost # NULL
    /\ bookings[b].status \in {"pending", "active", "rejected"} =>
         bookings[b].end_time = NULL /\ bookings[b].total_cost = NULL

\* a booking was released and carries its end time and cost, while another
\* booking is still open without either
C28_Witness ==
  \E b, c \in DOMAIN bookings :
    /\ bookings[b].status = "completed" /\ bookings[b].total_cost # NULL
    /\ bookings[c].status \in {"pending", "active"} /\ bookings[c].end_time = NULL

\* C29: the two release paths are one operation: for a booking in any status
\* and at the same instant, where the admin's release (admin_offline_release,
\* through _complete_booking) refuses, the owner's release (user_release)
\* refuses too and changes nothing, and where the admin's release completes
\* the booking, the owner's release leaves the same booking status,
\* end_time, total_cost and spot status
C29_ReleasePathsAgree ==
  [][ \A b \in DOMAIN bookings :
        user_release(bookings[b].user_id, b) =>
          IF NotActive(b)
          THEN refused' # NoRefusal /\ UNCHANGED db
          ELSE refused' = NoRefusal /\ complete_booking(b) ]_vars

\* no car has two bookings that are pending or active
CarsHaveOneOpenBooking ==
  \A b1, b2 \in DOMAIN bookings :
    /\ bookings[b1].car_id = bookings[b2].car_id
    /\ bookings[b1].status \in {"pending", "active"}
    /\ bookings[b2].status \in {"pending", "active"}
    => b1 = b2

\* no spot has two active bookings
SpotsHaveOneActiveBooking ==
  \A b1, b2 \in DOMAIN bookings :
    /\ bookings[b1].spot_id = bookings[b2].spot_id
    /\ bookings[b1].status = "active"
    /\ bookings[b2].status = "active"
    => b1 = b2

\* C30: a booking created through POST /api/admin/bookings preserves the
\* lifecycle invariants: after it every car still has at most one pending or
\* active booking, every spot at most one active booking, and the status of
\* the booking's spot matches the status of the booking (reserved for
\* pending, occupied for active, unchanged for completed or rejected)
C30_ApiBookingKeepsInvariants ==
  [][ \A u \in ApiCallers, d \in ApiBookingInputs :
        /\ BookingListAPI_post(u, d.user_id, d.car_id, d.spot_id, now, d.status)
        /\ DOMAIN bookings' # DOMAIN bookings
        /\ CarsHaveOneOpenBooking /\ SpotsHaveOneActiveBooking
        => /\ CarsHaveOneOpenBooking'
           /\ SpotsHaveOneActiveBooking'
           /\ d.spot_id \in DOMAIN spots =>
                spots'[d.spot_id].status =
                  CASE d.status = "pending" -> "reserved"
                    [] d.status = "active" -> "occupied"
                    [] OTHER -> spots[d.spot_id].status ]_vars

====
